---- MODULE Spec2Model ----
(***************************************************************************)
(* Model of the thumbnail generator: the App component's session state and *)
(* handlers (src/unnamed/part_000), the two remote-call wrappers of        *)
(* services/geminiService.ts, and the 16:9 centre-crop of handleFileChange.*)
(* handleDownload changes no state and is left out.                        *)
(*                                                                         *)
(* Strings are sequences of tokens, so that trim, split(',') and includes  *)
(* are computed rather than assumed.  null is the empty sequence: none of  *)
(* the nullable fields can hold an empty string (a data URL starts with    *)
(* "data:", every error message is a non-empty literal).  A nullable       *)
(* object (referenceImage) is a sequence of zero or one record.            *)
(***************************************************************************)
EXTENDS Integers, Sequences, FiniteSets, TLC

\* ------------------------------------------------------------------ bounds
MaxPromptLen == 2      \* longest prompt typed into the textarea
MaxReads     == 2      \* file reads/decodes pending at once
MaxMsgLen    == 2      \* tokens in a remote failure message
MaxParts     == 2      \* content parts in a remote candidate
MaxDim       == 33     \* largest source image width/height (pixels)

\* ----------------------------------------------------------- string helpers
Null == <<>>

SeqsUpTo(S, n) == UNION {[1..k -> S] : k \in 0..n}

RECURSIVE trimStart(_)
trimStart(s) == IF s # <<>> /\ Head(s) = " " THEN trimStart(Tail(s)) ELSE s

RECURSIVE trimEnd(_)
trimEnd(s) ==
    IF s # <<>> /\ s[Len(s)] = " " THEN trimEnd(SubSeq(s, 1, Len(s) - 1)) ELSE s

\* variant: the prompt is used untrimmed
trimSkipped(s) == s

\* String.prototype.trim
trim(s) == trimEnd(trimStart(s))

\* String.prototype.includes, on token strings
includes(s, tok) == \E i \in 1..Len(s) : s[i] = tok

\* String.prototype.startsWith, on token strings
startsWith(s, tok) == Len(s) >= 1 /\ s[1] = tok

\* String.prototype.split
RECURSIVE split(_, _)
split(s, sep) ==
    IF includes(s, sep)
    THEN LET i == CHOOSE k \in 1..Len(s) :
                      s[k] = sep /\ \A j \in 1..(k - 1) : s[j] # sep
         IN  <<SubSeq(s, 1, i - 1)>> \o split(SubSeq(s, i + 1, Len(s)), sep)
    ELSE <<s>>

\* `data:${mimeType};base64,${data}` (template literal / canvas.toDataURL)
DataUrl(mimeType, data) == <<"data:", mimeType, ";base64", ",">> \o data

getBase64FromDataUrl(dataUrl) == split(dataUrl, ",")[2]

\* ------------------------------------------------- geminiService.ts: values
\* A value thrown by the remote SDK call: an Error carrying a message, or (JS
\* lets anything be thrown) a value that is not an Error and has no message.
MsgTokens == {"429", "RESOURCE_EXHAUSTED", "INTERNAL"}

RemoteMessages == SeqsUpTo(MsgTokens, MaxMsgLen)

Error(message) == [isError |-> TRUE, message |-> message]

NonError == [isError |-> FALSE, message |-> <<>>]

RemoteThrown == {Error(m) : m \in RemoteMessages} \cup {NonError}

\* What a wrapper hands back to its caller: the base64 image, or an Error.
Return(data) == [ok |-> TRUE, value |-> data, message |-> <<>>]

Throw(message) == [ok |-> FALSE, value |-> <<>>, message |-> message]

QuotaMessage ==
    <<"Voce atingiu o limite de requisicoes (quota). Por favor, aguarde um minuto e tente novamente.">>

\* base64 payloads the remote service can return ("" included)
ImageBytes == {<<>>, <<"A">>, <<"B">>}

\* -------------------------------------- geminiService.ts: error classification
\* variant: only the numeric status is recognised
IsQuotaFailureOnly429(message) == includes(message, "429")

\* error.message.includes('429') || error.message.includes('RESOURCE_EXHAUSTED')
IsQuotaFailure(message) ==
    includes(message, "429") \/ includes(message, "RESOURCE_EXHAUSTED")

\* catch block of generateImageWithText
catchText(thrown) ==
    IF thrown.isError
    THEN IF IsQuotaFailure(thrown.message)
         THEN Throw(QuotaMessage)
         ELSE Throw(<<"Falha ao gerar imagem: ">> \o thrown.message)
    ELSE Throw(<<"Um erro inesperado ocorreu durante a geracao da imagem.">>)

\* catch block of generateImageWithReference
catchReference(thrown) ==
    IF thrown.isError
    THEN IF IsQuotaFailure(thrown.message)
         THEN Throw(QuotaMessage)
         ELSE Throw(<<"Falha ao gerar/editar imagem com referencia: ">> \o thrown.message)
    ELSE Throw(<<"Um erro inesperado ocorreu durante a geracao/edicao da imagem.">>)

\* ------------------------------------------ geminiService.ts: text-to-image
\* How ai.models.generateImages settles: it rejects with a thrown value, or
\* resolves with a response whose generatedImages may be missing or empty.
TextResponses ==
    [kind : {"resolve"}, thrown : {NonError}, hasGeneratedImages : BOOLEAN,
     generatedImages : {<<>>} \cup {<<b>> : b \in ImageBytes}]

TextRemote ==
    [kind : {"reject"}, thrown : RemoteThrown, hasGeneratedImages : {FALSE},
     generatedImages : {<<>>}]
    \cup {r \in TextResponses : ~r.hasGeneratedImages => r.generatedImages = <<>>}

\* generateImageWithText, from the point where the remote call settles
generateImageWithText(remote) ==
    IF remote.kind = "reject"
    THEN catchText(remote.thrown)
    ELSE IF ~remote.hasGeneratedImages \/ Len(remote.generatedImages) = 0
    THEN catchText(Error(<<"A API nao retornou nenhuma imagem.">>))
    ELSE IF remote.generatedImages[1] = <<>>
    THEN catchText(Error(<<"Os dados da imagem recebidos estao vazios.">>))
    ELSE Return(remote.generatedImages[1])

\* ------------------------------------- geminiService.ts: reference-guided
\* finishReason: "" stands for an absent field
FinishReasons == {"", "STOP", "SAFETY"}

TextPart == [hasInlineData |-> FALSE, mimeType |-> <<>>, data |-> <<>>]

InlinePart(mimeType, data) ==
    [hasInlineData |-> TRUE, mimeType |-> mimeType, data |-> data]

Parts ==
    {TextPart, InlinePart(<<"text/", "plain">>, <<"A">>)}
    \cup {InlinePart(<<"image/", "png">>, b) : b \in ImageBytes}

Candidates ==
    {c \in [hasContent : BOOLEAN, hasParts : BOOLEAN,
            parts : SeqsUpTo(Parts, MaxParts), finishReason : FinishReasons] :
        /\ ~c.hasContent => ~c.hasParts
        /\ ~c.hasParts => c.parts = <<>>}

\* How ai.models.generateContent settles; candidates holds response.candidates?.[0]
ReferenceRemote ==
    [kind : {"reject"}, thrown : RemoteThrown, candidates : {<<>>}]
    \cup [kind : {"resolve"}, thrown : {NonError},
          candidates : {<<>>} \cup {<<c>> : c \in Candidates}]

IsImagePart(part) == part.hasInlineData /\ startsWith(part.mimeType, "image/")

\* lines 82-88: candidate, content or parts missing
missingContent(candidates) ==
    IF candidates # <<>> /\ candidates[1].finishReason \notin {"", "STOP"}
    THEN Error(<<"A geracao da imagem foi interrompida. Motivo: ",
                 candidates[1].finishReason>>)
    ELSE Error(<<"A resposta da API nao continha o conteudo esperado ou foi bloqueada.">>)

\* generateImageWithReference, from the point where the remote call settles
generateImageWithReference(remote) ==
    IF remote.kind = "reject"
    THEN catchReference(remote.thrown)
    ELSE LET candidates == remote.candidates IN
         IF candidates = <<>> \/ ~candidates[1].hasContent \/ ~candidates[1].hasParts
         THEN catchReference(missingContent(candidates))
         ELSE LET parts == candidates[1].parts
                  found == {i \in 1..Len(parts) : IsImagePart(parts[i])}
              IN  IF found # {}
                  THEN Return(parts[CHOOSE i \in found : \A j \in found : i <= j].data)
                  ELSE catchReference(
                         Error(<<"A API nao retornou uma imagem no formato esperado.">>))

\* The requests the wrappers send.
EnhancedPrefix ==
    "The final output image MUST have a 16:9 aspect ratio, perfect for a YouTube thumbnail. IMPORTANT: Ignore the aspect ratio of any reference images provided. Now, fulfill this request: "

TextRequest(currentPrompt) ==
    [model |-> "imagen-4.0-generate-001", text |-> currentPrompt, images |-> <<>>]

ReferenceRequest(currentPrompt, images) ==
    [model |-> "gemini-2.5-flash-image", text |-> <<EnhancedPrefix>> \o currentPrompt,
     images |-> images]

\* ------------------------------------------------------ App.tsx: the session
VARIABLES
    prompt,                 \* useState: text of the prompt textarea
    generatedImage,         \* useState: data URL of the last result, or Null
    referenceImage,         \* useState: <<>> or <<[data, mimeType]>>
    referenceImagePreview,  \* useState: data URL of the reference, or Null
    isLoading,              \* useState
    error,                  \* useState: message, or Null
    inflight,               \* remote calls issued and not yet settled, each with
                            \* what the awaiting handleGenerateClick closure holds
    reads,                  \* FileReader / Image loads of handleFileChange pending
    discarded,              \* history: the reference was removed or the session
                            \* started over, and no file was selected since
    call,                   \* one wrapper call taken alone (SpecService)
    normalizer              \* one crop computation taken alone (SpecCrop)

appVars ==
    <<prompt, generatedImage, referenceImage, referenceImagePreview, isLoading,
      error, inflight, reads, discarded>>

vars == <<appVars, call, normalizer>>

Prompts == SeqsUpTo({" ", "a"}, MaxPromptLen)

\* file.type of an uploaded file
FileTypes == {"image/jpeg", "image/webp"}

\* what canvas.toDataURL encodes after the base64 comma
CanvasBytes == <<"R">>

isEditing == generatedImage # Null

Remove(seq, i) == SubSeq(seq, 1, i - 1) \o SubSeq(seq, i + 1, Len(seq))

IdleCall == [phase |-> "idle", op |-> "", remote |-> <<>>, result |-> <<>>, remoteCalls |-> 0]

IdleNormalizer == [phase |-> "idle", width |-> 0, height |-> 0, rect |-> <<>>]

AppInit ==
    /\ prompt = <<>>
    /\ generatedImage = Null
    /\ referenceImage = <<>>
    /\ referenceImagePreview = Null
    /\ isLoading = FALSE
    /\ error = Null
    /\ inflight = <<>>
    /\ reads = <<>>
    /\ discarded = FALSE

Init == AppInit /\ call = IdleCall /\ normalizer = IdleNormalizer

\* textarea onChange={(e) => setPrompt(e.target.value)}, disabled={isLoading}
setPrompt(value) ==
    /\ UNCHANGED <<call, normalizer>>
    /\ ~isLoading
    /\ prompt' = value
    /\ UNCHANGED <<generatedImage, referenceImage, referenceImagePreview, isLoading,
                   error, inflight, reads, discarded>>

\* The upload button is rendered while no preview is shown and is disabled
\* while loading; choosing a file starts the FileReader.
handleFileChange(fileType) ==
    /\ UNCHANGED <<call, normalizer>>
    /\ ~isLoading
    /\ referenceImagePreview = Null
    /\ Len(reads) < MaxReads
    /\ reads' = Append(reads, [type |-> fileType, stage |-> "reading"])
    /\ discarded' = FALSE
    /\ UNCHANGED <<prompt, generatedImage, referenceImage, referenceImagePreview,
                   isLoading, error, inflight>>

\* reader.onload: `if (!dataUrl) return;`, else img.src = dataUrl
readerOnload(i, hasDataUrl) ==
    /\ UNCHANGED <<call, normalizer>>
    /\ reads[i].stage = "reading"
    /\ reads' = IF hasDataUrl
                THEN [reads EXCEPT ![i].stage = "decoding"]
                ELSE Remove(reads, i)
    /\ UNCHANGED <<prompt, generatedImage, referenceImage, referenceImagePreview,
                   isLoading, error, inflight, discarded>>

readerOnerror(i) ==
    /\ UNCHANGED <<call, normalizer>>
    /\ reads[i].stage = "reading"
    /\ error' = <<"Falha ao ler o arquivo selecionado.">>
    /\ reads' = Remove(reads, i)
    /\ UNCHANGED <<prompt, generatedImage, referenceImage, referenceImagePreview,
                   isLoading, inflight, discarded>>

\* variant: a failed load also clears the held reference
imgOnerrorDropsReference(i) ==
    /\ UNCHANGED <<call, normalizer>>
    /\ reads[i].stage = "decoding"
    /\ error' = <<"Falha ao carregar a imagem de referencia. O arquivo pode estar corrompido ou em um formato nao suportado.">>
    /\ reads' = Remove(reads, i)
    /\ referenceImage' = <<>>
    /\ referenceImagePreview' = Null
    /\ UNCHANGED <<prompt, generatedImage, isLoading, inflight, discarded>>

imgOnerror(i) ==
    /\ UNCHANGED <<call, normalizer>>
    /\ reads[i].stage = "decoding"
    /\ error' = <<"Falha ao carregar a imagem de referencia. O arquivo pode estar corrompido ou em um formato nao suportado.">>
    /\ reads' = Remove(reads, i)
    /\ UNCHANGED <<prompt, generatedImage, referenceImage, referenceImagePreview,
                   isLoading, inflight, discarded>>

croppedMimeType(fileType) == IF fileType = "image/jpeg" THEN "image/jpeg" ELSE "image/png"

\* img.onload: no 2d context -> error; else crop, draw, encode, store
imgOnload(i, hasCtx) ==
    /\ UNCHANGED <<call, normalizer>>
    /\ reads[i].stage = "decoding"
    /\ reads' = Remove(reads, i)
    /\ IF ~hasCtx
       THEN /\ error' = <<"Nao foi possivel processar a imagem. O contexto do canvas nao esta disponivel.">>
            /\ UNCHANGED <<referenceImage, referenceImagePreview>>
       ELSE LET mimeType == croppedMimeType(reads[i].type)
                croppedDataUrl == DataUrl(mimeType, CanvasBytes)
            IN  /\ referenceImagePreview' = croppedDataUrl
                /\ referenceImage' = <<[data |-> getBase64FromDataUrl(croppedDataUrl),
                                        mimeType |-> mimeType]>>
                /\ UNCHANGED error
    /\ UNCHANGED <<prompt, generatedImage, isLoading, inflight, discarded>>

\* The remove button is rendered with the preview and is never disabled.
handleRemoveReferenceImage ==
    /\ UNCHANGED <<call, normalizer>>
    /\ referenceImagePreview # Null
    /\ referenceImage' = <<>>
    /\ referenceImagePreview' = Null
    /\ discarded' = TRUE
    /\ UNCHANGED <<prompt, generatedImage, isLoading, error, inflight, reads>>

\* The start-over button is rendered when isEditing, disabled={isLoading}.
handleStartOver ==
    /\ UNCHANGED <<call, normalizer>>
    /\ isEditing
    /\ ~isLoading
    /\ generatedImage' = Null
    /\ referenceImage' = <<>>
    /\ referenceImagePreview' = Null
    /\ prompt' = <<>>
    /\ error' = Null
    /\ discarded' = TRUE
    /\ UNCHANGED <<isLoading, inflight, reads>>

\* variant: the user's reference is put before the prior result
imagesForApiReferenceFirst(generated, reference) ==
    reference \o <<[data |-> getBase64FromDataUrl(generated), mimeType |-> "image/png"]>>

\* lines 128-134: the prior result first, then the user's reference if any
imagesForApi(generated, reference) ==
    <<[data |-> getBase64FromDataUrl(generated), mimeType |-> "image/png"]>> \o reference

\* lines 127-140: which wrapper is called, and with what
selectRequest(currentPrompt, generated, reference) ==
    IF generated # Null
    THEN ReferenceRequest(currentPrompt, imagesForApi(generated, reference))
    ELSE IF reference # <<>>
    THEN ReferenceRequest(currentPrompt, reference)
    ELSE TextRequest(currentPrompt)

\* variant: the image is cleared on every click
imageWhileLoadingCleared == Null

\* lines 121-123: `if (!isEditing) setGeneratedImage(null)`
imageWhileLoading == IF ~isEditing THEN Null ELSE generatedImage

\* handleGenerateClick up to its await
generateClickBody ==
    LET currentPrompt == trim(prompt) IN
    /\ UNCHANGED <<call, normalizer>>
    /\ IF currentPrompt = <<>>
       THEN /\ error' = IF isEditing
                        THEN <<"Por favor, descreva o ajuste desejado.">>
                        ELSE <<"Por favor, insira uma descricao para a thumbnail.">>
            /\ UNCHANGED <<prompt, generatedImage, referenceImage, referenceImagePreview,
                           isLoading, inflight, reads, discarded>>
       ELSE /\ isLoading' = TRUE
            /\ error' = Null
            /\ generatedImage' = imageWhileLoading
            /\ inflight' = Append(inflight,
                   [request |-> selectRequest(currentPrompt, generatedImage, referenceImage),
                    isEditing |-> isEditing])
            /\ UNCHANGED <<prompt, referenceImage, referenceImagePreview, reads, discarded>>

\* variant: the button is not disabled while loading
handleGenerateClickReentrant == generateClickBody

\* The generate button: onClick={handleGenerateClick} disabled={isLoading}
handleGenerateClick == ~isLoading /\ generateClickBody

\* Everything each wrapper can hand back, over all the ways its remote call
\* can settle.
TextResults == {generateImageWithText(remote) : remote \in TextRemote}

ReferenceResults == {generateImageWithReference(remote) : remote \in ReferenceRemote}

ResultsFor(request) ==
    IF request.model = "imagen-4.0-generate-001" THEN TextResults ELSE ReferenceResults

\* variant: setIsLoading(false) at the end of the try block, not in finally
settleWithoutFinally(i, result) ==
    /\ UNCHANGED <<call, normalizer>>
    /\ inflight' = Remove(inflight, i)
    /\ IF result.ok
       THEN /\ generatedImage' = DataUrl("image/png", result.value)
            /\ prompt' = IF inflight[i].isEditing THEN <<>> ELSE prompt
            /\ isLoading' = FALSE
            /\ UNCHANGED error
       ELSE /\ error' = result.message
            /\ UNCHANGED <<generatedImage, prompt, isLoading>>
    /\ UNCHANGED <<referenceImage, referenceImagePreview, reads, discarded>>

\* handleGenerateClick after its await: lines 141-150, one synchronous run.
\* result is what the awaited wrapper returned or threw.
settle(i, result) ==
    /\ UNCHANGED <<call, normalizer>>
    /\ inflight' = Remove(inflight, i)
    /\ isLoading' = FALSE
    /\ IF result.ok
       THEN /\ generatedImage' = DataUrl("image/png", result.value)
            /\ prompt' = IF inflight[i].isEditing THEN <<>> ELSE prompt
            /\ UNCHANGED error
       ELSE /\ error' = result.message
            /\ UNCHANGED <<generatedImage, prompt>>
    /\ UNCHANGED <<referenceImage, referenceImagePreview, reads, discarded>>

Next ==
    \/ \E value \in Prompts : setPrompt(value)
    \/ \E fileType \in FileTypes : handleFileChange(fileType)
    \/ \E i \in 1..Len(reads), hasDataUrl \in BOOLEAN : readerOnload(i, hasDataUrl)
    \/ \E i \in 1..Len(reads) : readerOnerror(i)
    \/ \E i \in 1..Len(reads), hasCtx \in BOOLEAN : imgOnload(i, hasCtx)
    \/ \E i \in 1..Len(reads) : imgOnerror(i)
    \/ handleRemoveReferenceImage
    \/ handleStartOver
    \/ handleGenerateClick
    \/ \E i \in 1..Len(inflight) : \E result \in ResultsFor(inflight[i].request) :
           settle(i, result)

Spec == Init /\ [][Next]_vars

\* ------------------------------------------- one wrapper call, taken alone
\* The wrapper issues its remote call (lines 16 / 72), awaits it, and hands back
\* what the code after the await computes.  remoteCalls counts the remote calls
\* the wrapper has issued.
ServiceInit == AppInit /\ normalizer = IdleNormalizer /\ call = IdleCall

invokeWrapper(op) ==
    /\ call.phase = "idle"
    /\ UNCHANGED <<appVars, normalizer>>
    /\ call' = [call EXCEPT !.phase = "awaiting", !.op = op,
                            !.remoteCalls = call.remoteCalls + 1]

remoteSettles(remote) ==
    /\ call.phase = "awaiting"
    /\ UNCHANGED <<appVars, normalizer>>
    /\ call' = [call EXCEPT !.phase = "done", !.remote = <<remote>>,
                            !.result = <<IF call.op = "text"
                                         THEN generateImageWithText(remote)
                                         ELSE generateImageWithReference(remote)>>]

ServiceNext ==
    \/ \E op \in {"text", "reference"} : invokeWrapper(op)
    \/ \E remote \in (IF call.op = "text" THEN TextRemote ELSE ReferenceRemote) :
           remoteSettles(remote)

SpecService == ServiceInit /\ [][ServiceNext]_vars

\* --------------------------------------- the crop of img.onload, taken alone
\* ------------------------------------------------------- JS number arithmetic
\* A JS number is an IEEE 754 double.  The non-negative, normal doubles the crop
\* computes with are modelled exactly: [m, e] stands for m * 2^e, with m a
\* natural number of at most 53 bits held as a sequence of 12-bit limbs, least
\* significant first, without high zero limbs (TLC's integers are 32 bits wide).
\* Every operation computes the exact result and rounds it to nearest, ties to
\* even, as the hardware does.
LimbBits == 12

Base == 4096

SignificandBits == 53

nat(n) == IF n = 0 THEN <<>> ELSE <<n % Base>> \o (IF n < Base THEN <<>> ELSE
             <<(n \div Base) % Base>> \o (IF n < Base * Base THEN <<>> ELSE
             <<n \div (Base * Base)>>))

\* a without its high zero limbs
strip(a) ==
    SubSeq(a, 1, CHOOSE n \in 0..Len(a) :
                     (n = 0 \/ a[n] # 0) /\ \A j \in (n + 1)..Len(a) : a[j] = 0)

RECURSIVE addNat(_, _, _)
addNat(a, b, carry) ==
    IF a = <<>> /\ b = <<>>
    THEN IF carry = 0 THEN <<>> ELSE <<carry>>
    ELSE LET x == IF a = <<>> THEN 0 ELSE Head(a)
             y == IF b = <<>> THEN 0 ELSE Head(b)
             s == x + y + carry
         IN  <<s % Base>> \o addNat(IF a = <<>> THEN a ELSE Tail(a),
                                    IF b = <<>> THEN b ELSE Tail(b), s \div Base)

\* a - b - borrow, for a >= b + borrow; high zero limbs are left in place
RECURSIVE subLimbs(_, _, _)
subLimbs(a, b, borrow) ==
    IF a = <<>>
    THEN <<>>
    ELSE LET y == IF b = <<>> THEN 0 ELSE Head(b)
             d == Head(a) - y - borrow
         IN  <<d % Base>> \o subLimbs(Tail(a), IF b = <<>> THEN b ELSE Tail(b),
                                      IF d < 0 THEN 1 ELSE 0)

subNat(a, b) == strip(subLimbs(a, b, 0))

lessNat(a, b) ==
    IF Len(a) # Len(b)
    THEN Len(a) < Len(b)
    ELSE \E i \in 1..Len(a) :
             a[i] < b[i] /\ \A j \in (i + 1)..Len(a) : a[j] = b[j]

\* a * d + carry for a limb d and a carry below Base
RECURSIVE mulLimb(_, _, _)
mulLimb(a, d, carry) ==
    IF a = <<>>
    THEN IF carry = 0 THEN <<>> ELSE <<carry>>
    ELSE LET p == Head(a) * d + carry
         IN  <<p % Base>> \o mulLimb(Tail(a), d, p \div Base)

\* a * d for a limb d
timesLimb(a, d) == IF d = 0 THEN <<>> ELSE mulLimb(a, d, 0)

\* a * b by halves of b
RECURSIVE timesNat(_, _)
timesNat(a, b) ==
    IF Len(b) = 1
    THEN timesLimb(a, b[1])
    ELSE LET half == Len(b) \div 2
             high == timesNat(a, SubSeq(b, half + 1, Len(b)))
             low  == timesNat(a, SubSeq(b, 1, half))
         IN  IF high = <<>> THEN low ELSE addNat(low, [i \in 1..half |-> 0] \o high, 0)

mulNat(a, b) ==
    IF a = <<>> \/ b = <<>>
    THEN <<>>
    ELSE IF Len(a) < Len(b) THEN timesNat(b, a) ELSE timesNat(a, b)

\* number of bits of a limb x >= 1, and of a natural number
limbLen(x) == CHOOSE k \in 1..LimbBits : 2^(k - 1) <= x /\ x < 2^k

bitLen(a) == IF a = <<>> THEN 0 ELSE LimbBits * (Len(a) - 1) + limbLen(a[Len(a)])

\* bit i of a, i = 1 the least significant
bit(a, i) ==
    LET limb == (i - 1) \div LimbBits + 1
    IN  IF limb > Len(a) THEN 0 ELSE (a[limb] \div 2^((i - 1) % LimbBits)) % 2

\* a * 2^k
shiftLeft(a, k) ==
    IF a = <<>>
    THEN a
    ELSE mulLimb([i \in 1..(k \div LimbBits) |-> 0] \o a, 2^(k % LimbBits), 0)

\* floor(a / 2^k)
shiftRight(a, k) ==
    LET n == bitLen(a) - k
    IN  IF n <= 0
        THEN <<>>
        ELSE [j \in 1..((n + LimbBits - 1) \div LimbBits) |->
                 LET from == k + (j - 1) * LimbBits
                     low  == from \div LimbBits + 1
                     off  == from % LimbBits
                 IN  (a[low] \div 2^off
                      + (IF low < Len(a) THEN a[low + 1] ELSE 0) * 2^(LimbBits - off))
                     % Base]

\* four bits of long division: (16 r + x) divided by b, for r < b and x < 16:
\* <<quotient digit, remainder>>
divDigit(r, x, b) ==
    LET n == mulLimb(r, 16, x)
        q == CHOOSE d \in 0..15 :
                 ~lessNat(n, timesLimb(b, d)) /\ lessNat(n, timesLimb(b, d + 1))
    IN  IF n = <<>> THEN <<0, n>> ELSE <<q, subNat(n, timesLimb(b, q))>>

\* one limb of long division: (r * Base + x) divided by b, for r < b:
\* <<quotient on one limb, remainder>>
divLimb(r, x, b) ==
    LET high == divDigit(r, x \div 256, b)
        mid  == divDigit(high[2], (x \div 16) % 16, b)
        low  == divDigit(mid[2], x % 16, b)
    IN  <<(<<256 * high[1] + 16 * mid[1] + low[1]>>), low[2]>>

\* (r * Base^Len(a) + a) divided by b, for r < b and a of at least one limb,
\* by halves of a: <<quotient on Len(a) limbs, remainder>>
RECURSIVE divLimbs(_, _, _)
divLimbs(r, a, b) ==
    IF Len(a) = 1
    THEN divLimb(r, a[1], b)
    ELSE LET half == Len(a) \div 2
             high == divLimbs(r, SubSeq(a, half + 1, Len(a)), b)
             low  == divLimbs(high[2], SubSeq(a, 1, half), b)
         IN  IF high[2] = <<>> /\ \A i \in 1..half : a[i] = 0
             THEN <<[i \in 1..half |-> 0] \o high[1], high[2]>>
             ELSE <<low[1] \o high[1], low[2]>>

\* <<floor(a / b) on Len(a) limbs, a mod b>> for a # 0 and b # 0
divNat(a, b) == divLimbs(<<>>, a, b)

\* round m * 2^e to nearest, ties to even; sticky: the exact value lies
\* strictly between m * 2^e and (m + 1) * 2^e
roundNearestEven(m, e, sticky) ==
    LET k == bitLen(m) - SignificandBits
    IN  IF k <= 0
        THEN [m |-> m, e |-> e]
        ELSE LET high == shiftRight(m, k)
                 half == bit(m, k) = 1
                 rest == sticky \/ \E i \in 1..(k - 1) : bit(m, i) = 1
                 odd  == high[1] % 2 = 1
             IN  [m |-> IF half /\ (rest \/ odd) THEN addNat(high, <<1>>, 0) ELSE high,
                  e |-> e + k]

\* an integer as a JS number
Num(n) == [m |-> nat(n), e |-> 0]

\* the significands of a and b on their common, smaller exponent
aligned(a, b) ==
    LET e == IF a.e < b.e THEN a.e ELSE b.e
    IN  [a |-> shiftLeft(a.m, a.e - e), b |-> shiftLeft(b.m, b.e - e), e |-> e]

Less(a, b) == lessNat(aligned(a, b).a, aligned(a, b).b)

Eq(a, b) == aligned(a, b).a = aligned(a, b).b

Leq(a, b) == ~Less(b, a)

\* the exact sum, difference (a >= b) and product: no rounding
exactAdd(a, b) == [m |-> addNat(aligned(a, b).a, aligned(a, b).b, 0), e |-> aligned(a, b).e]

exactSub(a, b) == [m |-> subNat(aligned(a, b).a, aligned(a, b).b), e |-> aligned(a, b).e]

exactMul(a, b) == [m |-> mulNat(a.m, b.m), e |-> a.e + b.e]

\* JS a * b
Mul(a, b) ==
    IF a.m = <<>> \/ b.m = <<>>
    THEN [m |-> <<>>, e |-> a.e + b.e]
    ELSE roundNearestEven(mulNat(a.m, b.m), a.e + b.e, FALSE)

\* JS a - b, for a >= b
Sub(a, b) ==
    IF b.m = <<>>
    THEN a
    ELSE roundNearestEven(exactSub(a, b).m, exactSub(a, b).e, FALSE)

\* JS a / b, for b # 0: the quotient to at least 55 bits; a remainder makes
\* the rounding sticky
Div(a, b) ==
    IF a.m = <<>>
    THEN a
    ELSE LET k  == SignificandBits + 2 + bitLen(b.m)
             qr == divNat(shiftLeft(a.m, k), b.m)
         IN  IF qr[2] = <<>>
             THEN roundNearestEven(strip(qr[1]), a.e - b.e - k, FALSE)
             ELSE roundNearestEven(strip(qr[1]), a.e - b.e - k, TRUE)

\* const targetAspectRatio = 16 / 9
targetAspectRatio == Div(Num(16), Num(9))

CanvasWidth == 1280

CanvasHeight == 720

\* variant: the offset is the whole margin, not half of it
cropRectNotHalved(width, height) ==
    LET currentAspectRatio == Div(Num(width), Num(height)) IN
    IF Less(targetAspectRatio, currentAspectRatio)
    THEN LET srcWidth == Mul(Num(height), targetAspectRatio) IN
         [srcWidth |-> srcWidth, srcHeight |-> Num(height),
          srcX |-> Sub(Num(width), srcWidth), srcY |-> Num(0),
          dstWidth |-> CanvasWidth, dstHeight |-> CanvasHeight]
    ELSE IF Less(currentAspectRatio, targetAspectRatio)
    THEN LET srcHeight == Div(Num(width), targetAspectRatio) IN
         [srcWidth |-> Num(width), srcHeight |-> srcHeight,
          srcX |-> Num(0), srcY |-> Sub(Num(height), srcHeight),
          dstWidth |-> CanvasWidth, dstHeight |-> CanvasHeight]
    ELSE [srcWidth |-> Num(width), srcHeight |-> Num(height),
          srcX |-> Num(0), srcY |-> Num(0),
          dstWidth |-> CanvasWidth, dstHeight |-> CanvasHeight]

\* lines 37-62: the arguments of ctx.drawImage for an img.width x img.height source
cropRect(width, height) ==
    LET currentAspectRatio == Div(Num(width), Num(height)) IN
    IF Less(targetAspectRatio, currentAspectRatio)
    THEN LET srcWidth == Mul(Num(height), targetAspectRatio) IN
         [srcWidth |-> srcWidth, srcHeight |-> Num(height),
          srcX |-> Div(Sub(Num(width), srcWidth), Num(2)), srcY |-> Num(0),
          dstWidth |-> CanvasWidth, dstHeight |-> CanvasHeight]
    ELSE IF Less(currentAspectRatio, targetAspectRatio)
    THEN LET srcHeight == Div(Num(width), targetAspectRatio) IN
         [srcWidth |-> Num(width), srcHeight |-> srcHeight,
          srcX |-> Num(0), srcY |-> Div(Sub(Num(height), srcHeight), Num(2)),
          dstWidth |-> CanvasWidth, dstHeight |-> CanvasHeight]
    ELSE [srcWidth |-> Num(width), srcHeight |-> Num(height),
          srcX |-> Num(0), srcY |-> Num(0),
          dstWidth |-> CanvasWidth, dstHeight |-> CanvasHeight]

\* The image has loaded with some width and height; img.onload computes the crop
\* and draws it.
CropInit ==
    /\ AppInit
    /\ call = IdleCall
    /\ \E width \in 1..MaxDim, height \in 1..MaxDim :
           normalizer = [phase |-> "loaded", width |-> width, height |-> height,
                         rect |-> <<>>]

drawCropped ==
    /\ normalizer.phase = "loaded"
    /\ UNCHANGED <<appVars, call>>
    /\ normalizer' = [normalizer EXCEPT
                         !.phase = "drawn",
                         !.rect = <<cropRect(normalizer.width, normalizer.height)>>]

CropNext == drawCropped

SpecCrop == CropInit /\ [][CropNext]_vars

\* ===================================================================== claims
\* The bytes whose PNG data URL is the stored result.
PriorResult(image) ==
    [data |-> CHOOSE b \in ImageBytes : DataUrl("image/png", b) = image,
     mimeType |-> "image/png"]

IsBlank(s) == \A i \in 1..Len(s) : s[i] = " "

DecodeErrors ==
    {<<"Falha ao ler o arquivo selecionado.">>,
     <<"Falha ao carregar a imagem de referencia. O arquivo pode estar corrompido ou em um formato nao suportado.">>,
     <<"Nao foi possivel processar a imagem. O contexto do canvas nao esta disponivel.">>}

ValidationErrors ==
    {<<"Por favor, descreva o ajuste desejado.">>,
     <<"Por favor, insira uma descricao para a thumbnail.">>}

GenerationFailures == {r.message : r \in {x \in TextResults \cup ReferenceResults : ~x.ok}}

\* C1: when a request is issued, the operation and its image list follow the
\* mode-selection table over (prior result, user reference): (none, none) ->
\* text-to-image with no images; (none, R) -> reference-guided with [R];
\* (P, none) -> reference-guided with [P]; (P, R) -> reference-guided with
\* [P, R]; the reference-guided operation always gets 1 or 2 images.
C1_ModeSelection ==
    [][Len(inflight') > Len(inflight) =>
        LET request == inflight'[Len(inflight')].request
            text == request.model = "imagen-4.0-generate-001"
        IN  /\ (generatedImage = Null /\ referenceImage = <<>>)
                => text /\ request.images = <<>>
            /\ (generatedImage = Null /\ referenceImage # <<>>)
                => ~text /\ request.images = referenceImage
            /\ (generatedImage # Null /\ referenceImage = <<>>)
                => ~text /\ request.images = <<PriorResult(generatedImage)>>
            /\ (generatedImage # Null /\ referenceImage # <<>>)
                => ~text /\ request.images =
                                <<PriorResult(generatedImage), referenceImage[1]>>
            /\ ~text => Len(request.images) \in {1, 2}]_vars

\* a refinement with a user reference is in flight, carrying two images
C1_Witness ==
    /\ Len(inflight) = 1
    /\ inflight[1].isEditing
    /\ Len(inflight[1].request.images) = 2
    /\ inflight[1].request.images[1].data = <<"B">>

\* C2: at most one generation request is issued and not yet settled.
C2_AtMostOneInFlight == Len(inflight) <= 1

\* a request is in flight while refining, with a file read still pending
C2_Witness == Len(inflight) = 1 /\ generatedImage # Null /\ reads # <<>>

\* C3: a generate click on a prompt that is empty or only whitespace sets an
\* error, issues no remote call and leaves the loading flag and the generated
\* image unchanged; no request is ever issued from such a prompt.
C3_BlankPromptRejected ==
    [][/\ (handleGenerateClick /\ IsBlank(prompt))
            => /\ error' \in ValidationErrors
               /\ UNCHANGED <<inflight, isLoading, generatedImage>>
       /\ Len(inflight') > Len(inflight) => ~IsBlank(prompt)]_vars

\* a whitespace-only refinement prompt was rejected
C3_Witness ==
    /\ error = <<"Por favor, descreva o ajuste desejado.">>
    /\ prompt # <<>>
    /\ IsBlank(prompt)
    /\ generatedImage # Null
    /\ ~isLoading
    /\ inflight = <<>>

\* C4: a reference-guided response with no image part and a finish reason
\* other than STOP fails with the blocked error naming that reason.
HasNoImagePart(remote) ==
    \/ remote.candidates = <<>>
    \/ ~remote.candidates[1].hasContent
    \/ ~remote.candidates[1].hasParts
    \/ \A i \in 1..Len(remote.candidates[1].parts) :
           ~IsImagePart(remote.candidates[1].parts[i])

C4_BlockedNamesFinishReason ==
    (/\ call.phase = "done"
     /\ call.op = "reference"
     /\ call.remote[1].kind = "resolve"
     /\ HasNoImagePart(call.remote[1])
     /\ call.remote[1].candidates # <<>>
     /\ call.remote[1].candidates[1].finishReason \notin {"", "STOP"})
    => /\ ~call.result[1].ok
       /\ includes(call.result[1].message,
                   "A geracao da imagem foi interrompida. Motivo: ")
       /\ includes(call.result[1].message, call.remote[1].candidates[1].finishReason)

\* C5: a remote failure whose message contains RESOURCE_EXHAUSTED or 429 is
\* handed back as the quota error by both wrappers, after exactly one remote
\* call.
C5_QuotaClassified ==
    (/\ call.phase = "done"
     /\ call.remote[1].kind = "reject"
     /\ call.remote[1].thrown.isError
     /\ \E i \in 1..Len(call.remote[1].thrown.message) :
            call.remote[1].thrown.message[i] \in {"429", "RESOURCE_EXHAUSTED"})
    => /\ call.result[1] = Throw(QuotaMessage)
       /\ call.remoteCalls = 1

\* the reference-guided wrapper classified a RESOURCE_EXHAUSTED failure
C5_Witness ==
    /\ call.phase = "done"
    /\ call.op = "reference"
    /\ call.remote[1].kind = "reject"
    /\ call.remote[1].thrown = Error(<<"INTERNAL", "RESOURCE_EXHAUSTED">>)
    /\ call.result[1] = Throw(QuotaMessage)

\* C6: the loading flag is true only while a request is in flight, and the
\* step that settles a request clears it and does exactly one of: replace the
\* generated image by the data URL of returned bytes (error untouched), or set
\* the error to a generation failure message (image untouched).
C6_Succeeded ==
    /\ \E b \in ImageBytes : generatedImage' = DataUrl("image/png", b)
    /\ error' = error

C6_Failed ==
    /\ error' \in GenerationFailures
    /\ generatedImage' = generatedImage

C6_OneOutcome ==
    /\ [](isLoading => Len(inflight) >= 1)
    /\ [][Len(inflight') < Len(inflight) =>
            /\ ~isLoading'
            /\ C6_Succeeded \/ C6_Failed
            /\ ~(C6_Succeeded /\ C6_Failed)]_vars

\* a refinement failed with the quota error and the flag was cleared
C6_Witness ==
    /\ ~isLoading
    /\ inflight = <<>>
    /\ error = QuotaMessage
    /\ generatedImage # Null

\* C7: once the reference is removed or the session starts over, no reference
\* image is held until the user selects a new file.
C7_NoReferenceAfterDiscard == discarded => referenceImage = <<>>

\* |a - b| of two numbers, exactly
absDiff(a, b) == IF Less(a, b) THEN exactSub(b, a) ELSE exactSub(a, b)

\* 2^-52 * a, exactly
Ulps(a) == [m |-> a.m, e |-> a.e - (SignificandBits - 1)]

\* the part of the crop geometry that holds exactly: the rectangle lies inside
\* the source, keeps the full limiting dimension, and is (0, 0, W, H) for a
\* 16:9 source
C8_Inside(r, width, height) ==
    LET W == Num(width)
        H == Num(height)
    IN  /\ Leq(exactAdd(r.srcX, r.srcWidth), W)
        /\ Leq(exactAdd(r.srcY, r.srcHeight), H)
        /\ 9 * width > 16 * height => Eq(r.srcHeight, H) /\ Eq(r.srcY, Num(0))
        /\ 9 * width < 16 * height => Eq(r.srcWidth, W) /\ Eq(r.srcX, Num(0))
        /\ 9 * width = 16 * height
               => Eq(r.srcX, Num(0)) /\ Eq(r.srcY, Num(0))
                  /\ Eq(r.srcWidth, W) /\ Eq(r.srcHeight, H)

\* C8 as stated: besides the above, the aspect is exactly 16:9
\* (9 * cropWidth = 16 * cropHeight) and the rectangle is exactly centred.
C8_CropGeometryExact ==
    normalizer.phase = "drawn" =>
        LET r == normalizer.rect[1]
            W == Num(normalizer.width)
            H == Num(normalizer.height)
        IN  /\ C8_Inside(r, normalizer.width, normalizer.height)
            /\ Eq(exactMul(Num(9), r.srcWidth), exactMul(Num(16), r.srcHeight))
            /\ Eq(exactMul(Num(2), r.srcX), exactSub(W, r.srcWidth))
            /\ Eq(exactMul(Num(2), r.srcY), exactSub(H, r.srcHeight))

\* C8 as amended: the rectangle lies inside the source, keeps the full limiting
\* dimension and is (0, 0, W, H) for a 16:9 source; its aspect and its centring
\* hold up to the rounding of double arithmetic:
\* |9 cropWidth - 16 cropHeight| <= 2^-52 * 16 cropHeight,
\* |2 cropX - (W - cropWidth)| <= 2^-52 * W, |2 cropY - (H - cropHeight)| <= 2^-52 * H.
C8_CropGeometry ==
    normalizer.phase = "drawn" =>
        LET r == normalizer.rect[1]
            W == Num(normalizer.width)
            H == Num(normalizer.height)
        IN  /\ C8_Inside(r, normalizer.width, normalizer.height)
            /\ Leq(absDiff(exactMul(Num(9), r.srcWidth), exactMul(Num(16), r.srcHeight)),
                   Ulps(exactMul(Num(16), r.srcHeight)))
            /\ Leq(absDiff(exactMul(Num(2), r.srcX), exactSub(W, r.srcWidth)), Ulps(W))
            /\ Leq(absDiff(exactMul(Num(2), r.srcY), exactSub(H, r.srcHeight)), Ulps(H))

\* a 13x7 source was cropped at the sides, to a width that is not exactly 16/9 * 7
C8_Witness ==
    /\ normalizer.phase = "drawn"
    /\ normalizer.width = 13
    /\ normalizer.height = 7
    /\ Less(Num(0), normalizer.rect[1].srcX)
    /\ ~Eq(exactMul(Num(9), normalizer.rect[1].srcWidth), Num(16 * 7))

\* C9: a step that sets the error to a decode failure changes nothing else of
\* the session: generated image, prompt, loading flag, requests in flight and
\* the held reference stay as they were.
C9_DecodeErrorFrame ==
    [][(error' \in DecodeErrors /\ error' # error) =>
          UNCHANGED <<generatedImage, prompt, isLoading, inflight, referenceImage,
                      referenceImagePreview>>]_vars

\* a decode failure arrived while a refinement with a reference was in flight
C9_Witness ==
    /\ error \in DecodeErrors
    /\ isLoading
    /\ Len(inflight) = 1
    /\ generatedImage # Null
    /\ referenceImage # <<>>

\* C10: the step that settles a request with a failure leaves the generated
\* image as it was when the request was issued (the prior result when
\* refining, none otherwise) and leaves the reference and the prompt alone.
C10_FailureKeepsPriorResult ==
    [][(Len(inflight') < Len(inflight) /\ error' # error) =>
          /\ UNCHANGED <<generatedImage, referenceImage, prompt>>
          /\ \A i \in 1..Len(inflight) :
                IF inflight[i].isEditing
                THEN /\ generatedImage' # Null
                     /\ inflight[i].request.images[1] = PriorResult(generatedImage')
                ELSE generatedImage' = Null]_vars

\* a refinement with a reference failed; prior result, reference and prompt remain
C10_Witness ==
    /\ ~isLoading
    /\ error \in GenerationFailures
    /\ generatedImage = DataUrl("image/png", <<"A">>)
    /\ referenceImage # <<>>
    /\ prompt # <<>>

====
